---- MODULE Spec2Model ----
(***************************************************************************)
(* Model of rag-service/main.py: a FastAPI service holding one global      *)
(* FAISS index (vectorstore) and one lazily loaded generation model.       *)
(*                                                                         *)
(* Scheduling.  upload_pdf is an `async def`: every /upload runs on the    *)
(* single event-loop thread and can be suspended only at its one await     *)
(* (line 135).  ask_question and summarize_pdf are plain `def`s: FastAPI   *)
(* runs each of them on a worker thread of its pool, so they interleave    *)
(* with one another and with the event-loop thread at every access to a    *)
(* global.                                                                 *)
(*                                                                         *)
(* Text is a sequence of one-character strings, so that endswith, strip    *)
(* and slicing are computed.                                               *)
(*                                                                         *)
(* Spec is the service: the three handlers and load_generation_model, step *)
(* by step.  SpecGen is one call of generate_response on its own, from the *)
(* load of the model to the returned text.                                 *)
(***************************************************************************)
EXTENDS Integers, Sequences, FiniteSets, TLC

VARIABLES
    cuda,                           \* torch.cuda.is_available() of this host
    encdec,                         \* config.is_encoder_decoder of HF_GENERATION_MODEL
    vectorstore,                    \* line 27
    generation_tokenizer,           \* line 30
    generation_model,               \* line 31
    generation_is_encoder_decoder,  \* line 32
    heap,                           \* the model objects created by from_pretrained
    files,                          \* the working directory: path -> content
    loop,                           \* the coroutine that holds the event-loop thread
    up,                             \* the /upload requests (coroutines)
    th,                             \* the /ask and /summarize requests (worker threads)
    lastOk,                         \* history: bytes of the last /upload that completed with 200
    loads,                          \* history: number of from_pretrained model loads
    gen                             \* one call of generate_response, step by step (SpecGen)

vars == <<cuda, encdec, vectorstore, generation_tokenizer, generation_model,
          generation_is_encoder_decoder, heap, files, loop, up, th, lastOk, loads,
          gen>>

\* ------------------------------------------------------------------ bounds
\* The number of HTTP requests, of any kind, that a behaviour admits.
MaxRequests == 3

Uploads == 1..MaxRequests
Threads == 1..MaxRequests

\* An optional value: None, or Some(v).  Object references are numbers, 0 for None.
None == <<>>
Some(v) == <<v>>
TheValue(o) == o[1]

\* ------------------------------------------------------------------ text
\* The characters str.strip() removes: those for which str.isspace() holds.
\* A character is a one-character string; one that a TLA+ string cannot
\* hold is written by its code point, "U+XXXX".
Whitespace == {
    "\t", "\n", "U+000B", "\f", "\r", "U+001C", "U+001D", "U+001E",
    "U+001F", " ", "U+0085", "U+00A0", "U+1680", "U+2000", "U+2001",
    "U+2002", "U+2003", "U+2004", "U+2005", "U+2006", "U+2007", "U+2008",
    "U+2009", "U+200A", "U+2028", "U+2029", "U+202F", "U+205F", "U+3000" }

Min(a, b) == IF a < b THEN a ELSE b

\* Mutant of EndsWith: the first character of the suffix is not compared
\* (the test written as endswith("pdf")).
EndsWith_NoDot(s, suffix) ==
    /\ Len(s) >= Len(suffix) - 1
    /\ SubSeq(s, Len(s) - Len(suffix) + 2, Len(s)) = Tail(suffix)

\* str.endswith
EndsWith(s, suffix) ==
    /\ Len(s) >= Len(suffix)
    /\ SubSeq(s, Len(s) - Len(suffix) + 1, Len(s)) = suffix

RECURSIVE LStrip(_)
LStrip(s) ==
    IF s # <<>> /\ Head(s) \in Whitespace THEN LStrip(Tail(s)) ELSE s

RECURSIVE RStrip(_)
RStrip(s) ==
    IF s # <<>> /\ s[Len(s)] \in Whitespace
    THEN RStrip(SubSeq(s, 1, Len(s) - 1)) ELSE s

\* str.strip
Strip(s) == RStrip(LStrip(s))

DotPdf == <<".", "p", "d", "f">>
TempPrefix == <<"t", "e", "m", "p", "_">>

\* ------------------------------------------------------------------ inputs
\* Filenames a client may send.
Filenames == { <<"a">> \o DotPdf, <<"a", "p", "d", "f">> }

\* A file's bytes are a sequence of blocks.  A block is the text of one page
\* (possibly empty), or Garbage, on which the PDF parser raises.
Garbage == <<"#">>
Payloads == { << <<"x">> >>,
              << <<"y">>, <<"z">> >>,
              << <<>> >>,
              << Garbage >> }

\* Request bodies of /ask.
Questions == { <<" ", "x">>, <<"\t", "x", "U+00A0">>, <<" ">>, <<"\t">>,
               <<"\r", "\n">>, <<>> }

\* "Summarize the document", the fixed query of /summarize (line 199).
SummaryQuery == <<"S">>

ask_k == 6
summarize_k == 8
question_min_length == 1
question_max_length == 2000

\* AskRequest (lines 107-114): the length limits of the field, then
\* validate_question.
AskRequestValid(body) ==
    /\ Len(body) >= question_min_length
    /\ Len(body) <= question_max_length
    /\ Strip(body) # <<>>
validate_question(v) == Strip(v)

\* ------------------------------------------------------------------ files
\* A path holds None (no such file) or Some(content).
file_location(filename) == TempPrefix \o filename
Paths == { file_location(n) : n \in Filenames }

\* open(path, "wb"): creates the file or truncates it to length zero.
OpenWb(fs, path) == [fs EXCEPT ![path] = Some(<<>>)]

\* f.write(data) on a handle opened at offset 0, then close: the bytes go to
\* offsets 0..len-1; whatever the file holds beyond them stays.
WriteClose(fs, path, data) ==
    [fs EXCEPT ![path] =
        Some(data \o SubSeq(TheValue(@), Len(data) + 1, Len(TheValue(@))))]

\* ------------------------------------------------------------------ libraries
\* PyPDFLoader(path).load(): one document per page; raises on an empty or
\* damaged file.
PyPDFLoader_load(content) ==
    IF content = <<>> \/ \E i \in DOMAIN content : content[i] = Garbage
    THEN [raised |-> TRUE, docs |-> <<>>]
    ELSE [raised |-> FALSE,
          docs |-> [i \in DOMAIN content |->
                       [page_content |-> content[i], page |-> i - 1]]]

chunk_size == 800
chunk_overlap == 150

\* RecursiveCharacterTextSplitter.split_text on a text without separators:
\* no chunk for an empty text, the text itself when it fits chunk_size, and
\* otherwise windows of chunk_size that overlap by chunk_overlap.
RECURSIVE split_text(_)
split_text(text) ==
    IF text = <<>> THEN <<>>
    ELSE IF Len(text) <= chunk_size THEN <<text>>
    ELSE <<SubSeq(text, 1, chunk_size)>>
         \o split_text(SubSeq(text, chunk_size - chunk_overlap + 1, Len(text)))

\* split_documents: the chunks of each page, in order, with the page's metadata.
RECURSIVE split_documents(_)
split_documents(docs) ==
    IF docs = <<>> THEN <<>>
    ELSE LET d == Head(docs)
             parts == split_text(d.page_content)
         IN  [i \in DOMAIN parts |-> [page_content |-> parts[i], page |-> d.page]]
             \o split_documents(Tail(docs))

\* FAISS.from_documents: the index holds the chunks in insertion order.
FAISS_from_documents(chunks) == chunks

\* The embedding model, as a number per text.
Code(c) == CASE c = "x" -> 1 [] c = "y" -> 2 [] c = "z" -> 4 [] c = "S" -> 3
             [] OTHER -> 0
RECURSIVE Embed(_)
Embed(text) == IF text = <<>> THEN 0 ELSE Code(Head(text)) + Embed(Tail(text))

Distance(a, b) == (Embed(a) - Embed(b)) * (Embed(a) - Embed(b))

\* Position of the chunk nearest to query among the positions in `left`
\* (the earliest one on a tie).
Nearest(index, query, left) ==
    CHOOSE i \in left : \A j \in left :
        LET di == Distance(index[i].page_content, query)
            dj == Distance(index[j].page_content, query)
        IN  di < dj \/ (di = dj /\ i <= j)

RECURSIVE Ranked(_, _, _, _)
Ranked(index, query, left, k) ==
    IF k = 0 \/ left = {} THEN <<>>
    ELSE LET i == Nearest(index, query, left)
         IN  <<index[i]>> \o Ranked(index, query, left \ {i}, k - 1)

\* vectorstore.similarity_search(query, k)
similarity_search(index, query, k) == Ranked(index, query, DOMAIN index, k)

\* ------------------------------------------------------------------ state
\* generate_response before it is called (SpecGen).
IdleGen == [pc |-> "idle", is_encoder_decoder |-> FALSE, prompt |-> <<>>,
            input_ids |-> <<>>, new_ids |-> <<>>, generated_ids |-> <<>>,
            text |-> <<>>]

\* A slot of the heap before from_pretrained has created its object.
NoObject == [arch |-> "", device |-> "", training |-> FALSE]

\* A request's locals.  `indexed` is history: whether an index existed when
\* the request ended.  A finished /upload keeps its filename and, with status
\* 200, the index it stored.
IdleUpload == [pc |-> "idle", name |-> <<>>, data |-> <<>>, pending |-> None,
               status |-> 0, detail |-> "", indexed |-> FALSE]
IdleThread == [pc |-> "idle", kind |-> "", query |-> <<>>, docs |-> <<>>,
               tokenizer |-> 0, model |-> 0, flag |-> FALSE, resp |-> ""]

\* The state after the module is imported (lines 19-40).
Init ==
    /\ cuda \in BOOLEAN
    /\ encdec \in BOOLEAN
    /\ vectorstore = None
    /\ generation_tokenizer = 0
    /\ generation_model = 0
    /\ generation_is_encoder_decoder = FALSE
    /\ heap = [t \in Threads |-> NoObject]
    /\ files = [p \in Paths |-> None]
    /\ loop = 0
    /\ up = [u \in Uploads |-> IdleUpload]
    /\ th = [t \in Threads |-> IdleThread]
    /\ lastOk = None
    /\ loads = 0
    /\ gen = IdleGen

\* The globals of the generation model; the index side; what no request changes.
modelVars == <<generation_tokenizer, generation_model,
               generation_is_encoder_decoder, heap, loads>>
config == <<cuda, encdec, gen>>

\* The requests admitted so far.
Started ==
    Cardinality({u \in Uploads : up[u].pc # "idle"})
    + Cardinality({t \in Threads : th[t].pc # "idle"})

\* ------------------------------------------------------------------ /upload
UploadDone(u, filename, status, detail) ==
    up' = [up EXCEPT ![u] = [IdleUpload EXCEPT !.pc = "done", !.name = filename,
                                               !.status = status,
                                               !.detail = detail,
                                               !.indexed = (vectorstore # None)]]

\* An exception other than HTTPException leaves the handler: FastAPI answers
\* 500 "Internal Server Error".
UploadRaised(u) ==
    up' = [up EXCEPT ![u] = [IdleUpload EXCEPT !.pc = "done", !.name = up[u].name,
                                               !.status = 500,
                                               !.detail = "Internal Server Error",
                                               !.indexed = (vectorstore # None)]]

\* What the environment can make of the library calls after the parse: both
\* return, split_documents raises (line 145), or the embedding inside
\* FAISS.from_documents raises (line 150).
Faults == {"", "split_documents", "from_documents"}

\* Mutant of UploadStart: an accepted upload first drops the current index.
UploadStart_Reset(u) ==
    /\ loop = 0
    /\ up[u].pc = "idle"
    /\ Started < MaxRequests
    /\ IF u = 1 THEN TRUE ELSE up[u - 1].pc # "idle"
    /\ \E filename \in Filenames, data \in Payloads :
         IF ~EndsWith(filename, DotPdf)
         THEN /\ UploadDone(u, filename, 400, "Only PDF files are allowed.")
              /\ UNCHANGED <<files, vectorstore>>
         ELSE /\ files' = OpenWb(files, file_location(filename))
              /\ vectorstore' = None
              /\ up' = [up EXCEPT ![u] = [@ EXCEPT !.pc = "reading",
                                                   !.name = filename,
                                                   !.data = data]]
    /\ UNCHANGED <<config, modelVars, loop, th, lastOk>>

\* Lines 126-135, up to the await: the filename test, then open(.., "wb").
UploadStart(u) ==
    /\ loop = 0
    /\ up[u].pc = "idle"
    /\ Started < MaxRequests
    /\ IF u = 1 THEN TRUE ELSE up[u - 1].pc # "idle"
    /\ \E filename \in Filenames, data \in Payloads :
         IF ~EndsWith(filename, DotPdf)
         THEN /\ UploadDone(u, filename, 400, "Only PDF files are allowed.")
              /\ UNCHANGED files
         ELSE /\ files' = OpenWb(files, file_location(filename))
              /\ up' = [up EXCEPT ![u] = [@ EXCEPT !.pc = "reading",
                                                   !.name = filename,
                                                   !.data = data]]
    /\ UNCHANGED <<config, vectorstore, modelVars, loop, th, lastOk>>

\* Mutant of UploadResume: the index is published while it is being built,
\* holding its first chunk only.
UploadResume_Partial(u) ==
    /\ loop = 0
    /\ up[u].pc = "reading"
    /\ \E fault \in Faults :
         LET path == file_location(up[u].name)
             fs   == WriteClose(files, path, up[u].data)
             load == PyPDFLoader_load(TheValue(fs[path]))
             chunks == split_documents(load.docs)
         IN  /\ files' = fs
             /\ IF load.raised
                THEN /\ UploadRaised(u)
                     /\ UNCHANGED vectorstore
                     /\ loop' = 0
                ELSE IF fault = "split_documents"
                THEN /\ UploadRaised(u)
                     /\ UNCHANGED vectorstore
                     /\ loop' = 0
                ELSE IF chunks = <<>>
                THEN /\ UploadDone(u, up[u].name, 400, "No text found in PDF.")
                     /\ UNCHANGED vectorstore
                     /\ loop' = 0
                ELSE IF fault = "from_documents"
                THEN /\ UploadRaised(u)
                     /\ UNCHANGED vectorstore
                     /\ loop' = 0
                ELSE /\ up' = [up EXCEPT ![u].pc = "built",
                                         ![u].pending = Some(FAISS_from_documents(chunks))]
                     /\ vectorstore' = Some(FAISS_from_documents(<<Head(chunks)>>))
                     /\ loop' = u
    /\ UNCHANGED <<config, modelVars, th, lastOk>>

\* Lines 135-150, from the resumption of the await to the evaluation of
\* FAISS.from_documents: write and close the file, parse it (137-138), split
\* (140-145), test the chunks (147-148), build the index (150).  A raise of
\* the parse, of the split or of the build ends the request with 500.
UploadResume(u) ==
    /\ loop = 0
    /\ up[u].pc = "reading"
    /\ \E fault \in Faults :
         LET path == file_location(up[u].name)
             fs   == WriteClose(files, path, up[u].data)
             load == PyPDFLoader_load(TheValue(fs[path]))
             docs == load.docs
         IN  /\ files' = fs
             /\ IF load.raised
                THEN /\ UploadRaised(u)
                     /\ loop' = 0
                ELSE IF fault = "split_documents"
                THEN /\ UploadRaised(u)
                     /\ loop' = 0
                ELSE IF split_documents(docs) = <<>>
                THEN /\ UploadDone(u, up[u].name, 400, "No text found in PDF.")
                     /\ loop' = 0
                ELSE IF fault = "from_documents"
                THEN /\ UploadRaised(u)
                     /\ loop' = 0
                ELSE /\ up' = [up EXCEPT ![u].pc = "built",
                                         ![u].pending =
                                             Some(FAISS_from_documents(split_documents(docs)))]
                     /\ loop' = u
    /\ UNCHANGED <<config, vectorstore, modelVars, th, lastOk>>

\* Mutant of UploadPublish: a successful upload also warms the generation
\* model up, so that the first question is answered faster.
UploadPublish_Warm(u) ==
    /\ loop = u
    /\ up[u].pc = "built"
    /\ vectorstore' = up[u].pending
    /\ lastOk' = Some(up[u].data)
    /\ up' = [up EXCEPT ![u] = [@ EXCEPT !.pc = "done", !.data = <<>>,
                                         !.status = 200, !.detail = "doc_id",
                                         !.indexed = (vectorstore # None)]]
    /\ loop' = 0
    /\ generation_is_encoder_decoder' = encdec
    /\ generation_tokenizer' = 1
    /\ generation_model' = 1
    /\ heap' = [heap EXCEPT ![1] = [arch |-> IF encdec THEN "seq2seq" ELSE "causal",
                                    device |-> "cpu", training |-> FALSE]]
    /\ loads' = loads + 1
    /\ UNCHANGED <<config, files, th>>

\* Lines 150-152: the store to the global, and the response.
UploadPublish(u) ==
    /\ loop = u
    /\ up[u].pc = "built"
    /\ vectorstore' = up[u].pending
    /\ lastOk' = Some(up[u].data)
    /\ up' = [up EXCEPT ![u] = [@ EXCEPT !.pc = "done", !.data = <<>>,
                                         !.status = 200, !.detail = "doc_id",
                                         !.indexed = (vectorstore # None)]]
    /\ loop' = 0
    /\ UNCHANGED <<config, modelVars, files, th>>

\* ------------------------------------------------------------------ /ask, /summarize
indexVars == <<vectorstore, files, loop, up, lastOk>>

ThreadDone(t, kind, resp) ==
    th' = [th EXCEPT ![t] = [IdleThread EXCEPT !.pc = "done", !.kind = kind,
                                               !.resp = resp]]

Admit(t) ==
    /\ th[t].pc = "idle"
    /\ Started < MaxRequests
    /\ IF t = 1 THEN TRUE ELSE th[t - 1].pc # "idle"

\* Lines 160-164, with the validation of the body that precedes the handler.
AskCheck(t) ==
    /\ Admit(t)
    /\ \E body \in Questions :
         IF ~AskRequestValid(body)
         THEN ThreadDone(t, "ask", "422")
         ELSE IF vectorstore = None
         THEN ThreadDone(t, "ask", "Please upload a PDF first.")
         ELSE th' = [th EXCEPT ![t] = [@ EXCEPT !.pc = "search", !.kind = "ask",
                                                !.query = validate_question(body)]]
    /\ UNCHANGED <<config, indexVars, modelVars>>

\* Lines 166-171: the second read of the global, the search, the test of docs.
AskSearch(t) ==
    /\ th[t].pc = "search"
    /\ th[t].kind = "ask"
    /\ LET docs == similarity_search(TheValue(vectorstore), Strip(th[t].query), ask_k)
       IN  IF docs = <<>>
           THEN ThreadDone(t, "ask", "Not found in document.")
           ELSE th' = [th EXCEPT ![t] = [@ EXCEPT !.pc = "load", !.docs = docs]]
    /\ UNCHANGED <<config, indexVars, modelVars>>

\* Lines 193-197.
SummarizeCheck(t) ==
    /\ Admit(t)
    /\ IF vectorstore = None
       THEN ThreadDone(t, "summarize", "Please upload a PDF first.")
       ELSE th' = [th EXCEPT ![t] = [@ EXCEPT !.pc = "search", !.kind = "summarize",
                                              !.query = SummaryQuery]]
    /\ UNCHANGED <<config, indexVars, modelVars>>

\* Line 199: the second read of the global and the search.  docs is not tested.
SummarizeSearch(t) ==
    /\ th[t].pc = "search"
    /\ th[t].kind = "summarize"
    /\ th' = [th EXCEPT ![t] = [@ EXCEPT !.pc = "load", !.docs =
                 similarity_search(TheValue(vectorstore), SummaryQuery, summarize_k)]]
    /\ UNCHANGED <<config, indexVars, modelVars>>

\* ------------------------------------------------------------------ load_generation_model
\* The triple of line 50 and line 66, read from the globals.  No call
\* separates the three reads; they are taken as one.
ReturnTriple(t) ==
    th' = [th EXCEPT ![t] = [@ EXCEPT !.pc = "generate",
                                      !.tokenizer = generation_tokenizer,
                                      !.model = generation_model,
                                      !.flag = generation_is_encoder_decoder]]

\* Lines 49-50, entered from generate_response (line 70).  Once the global
\* is not None it stays so: the test of line 49 is taken at the moment of
\* the reads of line 50.
LoadCheck(t) ==
    /\ th[t].pc = "load"
    /\ IF generation_model # 0
       THEN ReturnTriple(t)
       ELSE th' = [th EXCEPT ![t].pc = "config"]
    /\ UNCHANGED <<config, indexVars, modelVars>>

\* Lines 52-53: the flag from the configuration.
LoadConfig(t) ==
    /\ th[t].pc = "config"
    /\ generation_is_encoder_decoder' = encdec
    /\ th' = [th EXCEPT ![t].pc = "tokenizer"]
    /\ UNCHANGED <<config, indexVars, generation_tokenizer, generation_model,
                   heap, loads>>

\* Line 55: a new tokenizer.
LoadTokenizer(t) ==
    /\ th[t].pc = "tokenizer"
    /\ generation_tokenizer' = t
    /\ th' = [th EXCEPT ![t].pc = "model"]
    /\ UNCHANGED <<config, indexVars, generation_is_encoder_decoder,
                   generation_model, heap, loads>>

\* from_pretrained: a new model object, on the CPU and in evaluation mode.
from_pretrained(is_encoder_decoder) ==
    [arch |-> IF is_encoder_decoder THEN "seq2seq" ELSE "causal",
     device |-> "cpu", training |-> FALSE]

\* Lines 57-60: the class is chosen by the global flag, which no store
\* changes after this thread's line 53; from_pretrained returns and the
\* global is stored.
LoadModel(t) ==
    /\ th[t].pc = "model"
    /\ heap' = [heap EXCEPT ![t] = from_pretrained(generation_is_encoder_decoder)]
    /\ generation_model' = t
    /\ loads' = loads + 1
    /\ th' = [th EXCEPT ![t].pc = "device"]
    /\ UNCHANGED <<config, indexVars, generation_tokenizer,
                   generation_is_encoder_decoder>>

\* Line 62, and at line 63 the read of the global whose object is to be moved.
LoadToDevice(t) ==
    /\ th[t].pc = "device"
    /\ IF cuda
       THEN th' = [th EXCEPT ![t] = [@ EXCEPT !.pc = "moving",
                                              !.model = generation_model]]
       ELSE th' = [th EXCEPT ![t].pc = "eval"]
    /\ UNCHANGED <<config, indexVars, modelVars>>

\* Line 63, Module.to("cuda"): the object that was read is moved, in place,
\* and returned.
LoadMove(t) ==
    /\ th[t].pc = "moving"
    /\ heap' = [heap EXCEPT ![th[t].model].device = "cuda"]
    /\ th' = [th EXCEPT ![t].pc = "store"]
    /\ UNCHANGED <<config, indexVars, generation_tokenizer, generation_model,
                   generation_is_encoder_decoder, loads>>

\* Line 63, the store of the moved object to the global.
LoadStoreMoved(t) ==
    /\ th[t].pc = "store"
    /\ generation_model' = th[t].model
    /\ th' = [th EXCEPT ![t].pc = "eval"]
    /\ UNCHANGED <<config, indexVars, generation_tokenizer,
                   generation_is_encoder_decoder, heap, loads>>

\* Lines 65-66: eval() on the object the global refers to, which is in
\* evaluation mode already, and the return.
LoadEval(t) ==
    /\ th[t].pc = "eval"
    /\ heap' = [heap EXCEPT ![generation_model].training = FALSE]
    /\ ReturnTriple(t)
    /\ UNCHANGED <<config, indexVars, generation_tokenizer, generation_model,
                   generation_is_encoder_decoder, loads>>

\* Lines 71-100 and the rest of the handler (173-185, 201-210): the prompt,
\* the generation and the response.  The text is modelled by SpecGen.
Generate(t) ==
    /\ th[t].pc = "generate"
    /\ ThreadDone(t, th[t].kind, "generated")
    /\ UNCHANGED <<config, indexVars, modelVars>>

\* ------------------------------------------------------------------ generate_response
\* The vocabulary: two special tokens and one token per character.
pad_token_id == 0
eos_token_id == 1
SpecialTokens == {pad_token_id, eos_token_id}
Alphabet == <<" ", "a", "b">>
TokenOf(c) == 1 + CHOOSE i \in DOMAIN Alphabet : Alphabet[i] = c
PieceOf(id) == Alphabet[id - 1]
TokenIds == SpecialTokens \cup {1 + i : i \in DOMAIN Alphabet}

max_length == 2048

\* tokenizer(prompt, truncation=True, max_length=n): the ids of the prompt,
\* cut to n in all; a sequence-to-sequence tokenizer ends them with eos.
Tokenize(prompt, is_encoder_decoder, n) ==
    LET ids == [i \in DOMAIN prompt |-> TokenOf(prompt[i])]
    IN  IF is_encoder_decoder
        THEN SubSeq(ids, 1, Min(Len(ids), n - 1)) \o <<eos_token_id>>
        ELSE SubSeq(ids, 1, Min(Len(ids), n))

\* model.generate: a causal model returns the input ids followed by the new
\* ones, a sequence-to-sequence model the decoder's start token followed by
\* the new ones.
ModelGenerate(is_encoder_decoder, input_ids, new_ids) ==
    IF is_encoder_decoder THEN <<pad_token_id>> \o new_ids
    ELSE input_ids \o new_ids

\* tokenizer.decode(ids, skip_special_tokens=True)
Decode(ids) ==
    LET kept == SelectSeq(ids, LAMBDA id : id \notin SpecialTokens)
    IN  [i \in DOMAIN kept |-> PieceOf(kept[i])]

\* Mutant of DecodedIds: the whole generated sequence is decoded for a
\* causal model too.
DecodedIds_Whole(is_encoder_decoder, generated_ids, input_ids) == generated_ids

\* Lines 93-98: the ids that are decoded.
DecodedIds(is_encoder_decoder, generated_ids, input_ids) ==
    IF is_encoder_decoder THEN generated_ids
    ELSE LET input_len == Len(input_ids)
         IN  SubSeq(generated_ids, input_len + 1, Len(generated_ids))

\* Prompts: short ones, and ones around max_length tokens long.
LongPrompt(n) == [i \in 1..n |-> IF i % 2 = 1 THEN "a" ELSE "b"]
Prompts == { <<"a">>, <<"b", " ", "a">>,
             LongPrompt(max_length - 1), LongPrompt(max_length),
             LongPrompt(max_length + 1) }

\* The longest continuation the model is let to produce here.
MaxNewTokens == 2

RECURSIVE SeqsUpTo(_, _)
SeqsUpTo(S, n) ==
    IF n = 0 THEN {<<>>}
    ELSE LET shorter == SeqsUpTo(S, n - 1)
         IN  shorter \cup {Append(q, x) : q \in shorter, x \in S}

\* Lines 69-70: the call, and load_generation_model run by this one caller
\* from its test (line 49) to its return (line 50 or line 66).  No other
\* thread runs in SpecGen, so its steps are taken together: the flag, the
\* tokenizer, the model, the move to the GPU, eval().
GenLoad ==
    /\ gen.pc = "idle"
    /\ \E prompt \in Prompts :
         IF generation_model # 0
         THEN /\ gen' = [gen EXCEPT !.pc = "loaded",
                                    !.prompt = prompt,
                                    !.is_encoder_decoder =
                                        generation_is_encoder_decoder]
              /\ UNCHANGED modelVars
         ELSE /\ generation_is_encoder_decoder' = encdec
              /\ generation_tokenizer' = 1
              /\ generation_model' = 1
              /\ heap' = [heap EXCEPT ![1] =
                             [from_pretrained(encdec) EXCEPT
                                 !.device = IF cuda THEN "cuda" ELSE "cpu"]]
              /\ loads' = loads + 1
              /\ gen' = [gen EXCEPT !.pc = "loaded",
                                    !.prompt = prompt,
                                    !.is_encoder_decoder = encdec]
    /\ UNCHANGED <<cuda, encdec, indexVars, th>>

\* Lines 71-80: the encoding of the prompt.
GenEncode ==
    /\ gen.pc = "loaded"
    /\ gen' = [gen EXCEPT !.pc = "encoded",
                          !.input_ids = Tokenize(gen.prompt, gen.is_encoder_decoder,
                                                 max_length)]
    /\ UNCHANGED <<cuda, encdec, indexVars, modelVars, th>>

\* Lines 82-91: the model produces at most max_new_tokens new ids.
GenGenerate(max_new_tokens) ==
    /\ gen.pc = "encoded"
    /\ \E new_ids \in SeqsUpTo(TokenIds, Min(MaxNewTokens, max_new_tokens)) :
         gen' = [gen EXCEPT !.pc = "generated",
                            !.new_ids = new_ids,
                            !.generated_ids = ModelGenerate(gen.is_encoder_decoder,
                                                            gen.input_ids, new_ids)]
    /\ UNCHANGED <<cuda, encdec, indexVars, modelVars, th>>

\* Lines 93-100: decode, strip, return.
GenDecode ==
    /\ gen.pc = "generated"
    /\ gen' = [gen EXCEPT !.pc = "done",
                          !.text = Strip(Decode(DecodedIds(gen.is_encoder_decoder,
                                                           gen.generated_ids,
                                                           gen.input_ids)))]
    /\ UNCHANGED <<cuda, encdec, indexVars, modelVars, th>>

default_max_new_tokens == 400

NextGen ==
    \/ GenLoad
    \/ GenEncode
    \/ GenGenerate(default_max_new_tokens)
    \/ GenDecode

SpecGen == Init /\ [][NextGen]_vars

Next ==
    \/ \E u \in Uploads : UploadStart(u)
    \/ \E u \in Uploads : UploadResume(u)
    \/ \E u \in Uploads : UploadPublish(u)
    \/ \E t \in Threads : AskCheck(t)
    \/ \E t \in Threads : AskSearch(t)
    \/ \E t \in Threads : SummarizeCheck(t)
    \/ \E t \in Threads : SummarizeSearch(t)
    \/ \E t \in Threads : LoadCheck(t)
    \/ \E t \in Threads : LoadConfig(t)
    \/ \E t \in Threads : LoadTokenizer(t)
    \/ \E t \in Threads : LoadModel(t)
    \/ \E t \in Threads : LoadToDevice(t)
    \/ \E t \in Threads : LoadMove(t)
    \/ \E t \in Threads : LoadStoreMoved(t)
    \/ \E t \in Threads : LoadEval(t)
    \/ \E t \in Threads : Generate(t)

Spec == Init /\ [][Next]_vars

\* ------------------------------------------------------------------ claims
IsPdfName(n) ==
    /\ Len(n) >= 4
    /\ n[Len(n) - 3] = "." /\ n[Len(n) - 2] = "p"
    /\ n[Len(n) - 1] = "d" /\ n[Len(n)] = "f"

Succeeded(u) == up[u].pc = "done" /\ up[u].status = 200

\* What the bytes a request uploaded amount to: their chunks, indexed.
IndexOf(data) ==
    FAISS_from_documents(split_documents(PyPDFLoader_load(data).docs))

\* The chunks of a search result.
Range(f) == { f[i] : i \in DOMAIN f }

\* Thread t runs its search (line 168 or line 199) in this step.
Searches(t) == th[t].pc = "search" /\ th'[t].pc # "search"

PleaseUpload == "Please upload a PDF first."

\* C1: every retrieval of /ask and /summarize returns only chunks of the
\* bytes uploaded by the most recent /upload that completed with 200.
C1_OnlyLatestUpload ==
    [][\A t \in Threads :
         Searches(t) =>
             /\ lastOk # None
             /\ Range(th'[t].docs) \subseteq Range(IndexOf(TheValue(lastOk)))]_vars

\* C2: the model is loaded at most once, and all calls of
\* load_generation_model return the same triple.
C2_LoadedOnce ==
    /\ loads <= 1
    /\ \A t1, t2 \in Threads :
         th[t1].pc = "generate" /\ th[t2].pc = "generate" =>
             /\ th[t1].tokenizer = th[t2].tokenizer
             /\ th[t1].model = th[t2].model
             /\ th[t1].flag = th[t2].flag

\* C3: the index is None at the start and exactly until the first /upload
\* succeeds; a request is answered "Please upload a PDF first." if and only
\* if no /upload has succeeded when it tests the index; no step resets the
\* index to None.
C3_IndexLifetime ==
    /\ [](vectorstore = None <=> ~\E u \in Uploads : Succeeded(u))
    /\ [][\A t \in Threads :
            th[t].pc = "idle" /\ th'[t].pc # "idle" /\ th'[t].resp # "422" =>
                (th'[t].resp = PleaseUpload <=> ~\E u \in Uploads : Succeeded(u))]_vars
    /\ [][\A t \in Threads : th'[t].resp = PleaseUpload => th[t].pc \in {"idle", "done"}]_vars
    /\ [][vectorstore # None => vectorstore' # None]_vars

C3_Witness ==
    \E t1, t2 \in Threads, u \in Uploads :
        /\ th[t1].pc = "done" /\ th[t1].resp = PleaseUpload
        /\ Succeeded(u)
        /\ th[t2].pc = "search"

\* C4: an /upload whose filename does not end in ".pdf" ends at once with
\* 400 "Only PDF files are allowed."; its step writes no file and leaves the
\* index as it was.
C4_NonPdfRejected ==
    /\ [](\A u \in Uploads :
            up[u].pc # "idle" /\ ~IsPdfName(up[u].name) =>
                /\ up[u].pc = "done"
                /\ up[u].status = 400
                /\ up[u].detail = "Only PDF files are allowed."
                /\ up[u].pending = None)
    /\ [][\A u \in Uploads :
            up[u].pc = "idle" /\ up'[u].pc # "idle" /\ ~IsPdfName(up'[u].name) =>
                files' = files /\ vectorstore' = vectorstore]_vars

C4_Witness ==
    \E u \in Uploads :
        /\ up[u].pc = "done" /\ ~IsPdfName(up[u].name)
        /\ up[u].status = 400
        /\ up[u].indexed
        /\ \E p \in Paths : files[p] # None /\ files[p] # Some(<<>>)

\* C5: a step of an /upload that does not end it with 200 leaves the index
\* unchanged, whichever of the loading, the splitting and the embedding
\* raised; an /upload whose own PDF (the bytes it sent) does not parse ends
\* with an error; and one whose own PDF yields no chunk ends with 400
\* "No text found in PDF.", unless a library call raised (500).
YieldsNoChunk(data) ==
    /\ ~PyPDFLoader_load(data).raised
    /\ IndexOf(data) = <<>>

C5_FailedUploadKeepsIndex ==
    /\ [][\A u \in Uploads :
            up'[u] # up[u] /\ up'[u].status # 200 => vectorstore' = vectorstore]_vars
    /\ [][\A u \in Uploads :
            up[u].pc = "reading" /\ up'[u] # up[u] =>
                /\ PyPDFLoader_load(up[u].data).raised =>
                       up'[u].pc = "done" /\ up'[u].status = 500
                /\ YieldsNoChunk(up[u].data) /\ up'[u].status # 500 =>
                       /\ up'[u].pc = "done"
                       /\ up'[u].status = 400
                       /\ up'[u].detail = "No text found in PDF."]_vars

\* C6: nothing is loaded at the start; the model globals change only in a
\* step of a thread inside load_generation_model; a thread enters it only
\* from its search, with an index present and, for /ask, documents found; and
\* a thread leaves line 49 without loading only after a load.
InLoad == {"config", "tokenizer", "model", "device", "moving", "store", "eval"}
ReachedGenerate(t) ==
    \/ th[t].pc \in InLoad \cup {"load", "generate"}
    \/ th[t].pc = "done" /\ th[t].resp = "generated"

C6_LazyLoad ==
    /\ [](loads > 0 \/ generation_model # 0 \/ generation_tokenizer # 0
            => \E t \in Threads : ReachedGenerate(t))
    /\ [][modelVars' # modelVars =>
            \E t \in Threads : th[t].pc \in InLoad /\ th'[t] # th[t]]_vars
    /\ [][\A t \in Threads :
            th'[t].pc = "load" /\ th[t].pc # "load" =>
                /\ th[t].pc = "search"
                /\ vectorstore # None
                /\ th[t].kind = "ask" => th'[t].docs # <<>>]_vars
    /\ [][\A t \in Threads :
            th[t].pc = "load" /\ th'[t].pc = "generate" => loads >= 1]_vars

C6_Witness ==
    \E t1, t2 \in Threads, u \in Uploads :
        /\ th[t1].pc = "done" /\ th[t1].resp = PleaseUpload
        /\ Succeeded(u)
        /\ th[t2].pc = "config"
        /\ loads = 0 /\ generation_model = 0

\* C7: the text returned is the stripped decoding of the whole generated
\* sequence for a sequence-to-sequence model, and of the ids after the first
\* input_len for a causal model, which are exactly the new ids; input_len is
\* the number of prompt ids after truncation.
C7_DecodeByArchitecture ==
    gen.pc = "done" =>
        /\ Len(gen.input_ids) <= max_length
        /\ gen.is_encoder_decoder =>
               gen.text = Strip(Decode(gen.generated_ids))
        /\ ~gen.is_encoder_decoder =>
               /\ gen.text = Strip(Decode(SubSeq(gen.generated_ids,
                                                 Len(gen.input_ids) + 1,
                                                 Len(gen.generated_ids))))
               /\ gen.text = Strip(Decode(gen.new_ids))
        /\ gen.text # <<>> =>
               gen.text[1] \notin Whitespace /\ gen.text[Len(gen.text)] \notin Whitespace

C7_Witness ==
    /\ gen.pc = "done"
    /\ ~gen.is_encoder_decoder
    /\ Len(gen.prompt) > max_length
    /\ Len(gen.input_ids) = max_length
    /\ gen.new_ids = <<TokenOf(" "), TokenOf("b")>>
    /\ gen.text = <<"b">>

\* C8: a thread that has passed its None test never reads None; the index it
\* searches is the whole index stored by an /upload that has completed.
C8_AtomicIndex ==
    /\ [](\A t \in Threads : th[t].pc = "search" => vectorstore # None)
    /\ [][\A t \in Threads :
            Searches(t) =>
                \E u \in Uploads :
                    /\ Succeeded(u)
                    /\ th'[t].docs =
                           similarity_search(TheValue(up[u].pending), th[t].query,
                               IF th[t].kind = "ask" THEN ask_k ELSE summarize_k)]_vars

C8_Witness ==
    \E t \in Threads, u1, u2 \in Uploads :
        /\ Succeeded(u1)
        /\ up[u2].pc = "built" /\ up[u2].pending # up[u1].pending
        /\ th[t].pc = "load"
        /\ Range(th[t].docs) = Range(TheValue(up[u1].pending))

\* C9: the index an /upload builds is the index of the bytes this request
\* uploaded.
C9_OwnBytesOnly ==
    \A u \in Uploads :
        up[u].pc = "built" => up[u].pending = Some(IndexOf(up[u].data))

\* C10: the triple a thread generates with has a tokenizer, a flag that
\* matches the model's architecture, and a model on its device in evaluation
\* mode.
TargetDevice == IF cuda THEN "cuda" ELSE "cpu"
C10_FullyInitialised ==
    \A t \in Threads :
        th[t].pc = "generate" =>
            /\ th[t].tokenizer # 0
            /\ th[t].model # 0
            /\ th[t].flag = (heap[th[t].model].arch = "seq2seq")
            /\ heap[th[t].model].device = TargetDevice
            /\ ~heap[th[t].model].training
====
